---- MODULE Spec2Model ----
(***************************************************************************)
(* Model of src/code_execution.py: run_command, install_dependencies,      *)
(* run_in_tempdir and code_exec_node, as a state machine over the          *)
(* filesystem, the child processes and each invocation's position.         *)
(*                                                                         *)
(* Captured streams are sequences of one-character strings, so that        *)
(* str.strip() and the f-string of the install-failure record are          *)
(* computed rather than assumed.  Paths and command arguments are strings. *)
(***************************************************************************)
EXTENDS Integers, Sequences, FiniteSets, TLC

\* ---------------------------------------------------------------- bounds
\* longest raw stream a child writes
MaxLen == 2
\* longest package list of a request
MaxPkgs == 1

\* ------------------------------------------------------ program constants
\* subprocess.run(..., timeout=60, ...)
TIMEOUT == 60
\* "returncode": -2 of the TimeoutExpired handler
TIMEOUT_RETURNCODE == 0 - 2

\* Python's None for the optional string parameters (cwd, temp_dir)
None == "None"

\* ------------------------------------------------------------ environment
\* the invocations of code_exec_node
Procs == {"p1", "p2"}
\* characters a child may write to a stream
Chars == {"a", "\n"}
\* the characters str.strip() removes
Whitespace == {" ", "\n", "\t", "\r"}
\* the streams a child may write
RawStreams == UNION {[1..n -> Chars] : n \in 0..MaxLen}
\* exit statuses of a child that exits by itself
ExitCodes == {0, 1}
\* signals that may kill a child (SIGINT, SIGKILL)
Signals == {2, 9}
\* Popen.returncode: the exit status, or -N for a child killed by signal N
ReturnCodes == ExitCodes \cup {0 - s : s \in Signals}
\* wall-clock run times of a child: below, at and above the timeout
Durations == {1, TIMEOUT, TIMEOUT + 1}
\* package names a caller may request
PkgNames == {"left-pad"}
\* the package lists of a request: absent (None), or a list
PackageLists ==
  {[present |-> FALSE, items |-> <<>>]}
    \cup {[present |-> TRUE, items |-> l] :
            l \in UNION {[1..n -> PkgNames] : n \in 0..MaxPkgs}}
\* snippets whose result is a function of what they find on disk: this one
\* succeeds exactly when the package left-pad resolves from its directory
DeterministicCodes == {"import('left-pad')"}
\* the snippets of a request; nothing is assumed of the first one's result
Codes == {"console.log(1)"} \cup DeterministicCodes
\* the names tempfile.mkdtemp() may return
TempNames == {"/tmp/tmpA", "/tmp/tmpB"}
\* the working directory of the server process
ProcessCwd == "/app"

\* ------------------------------------------------------------ str helpers
RECURSIVE lstrip(_)
lstrip(s) ==
  IF s # <<>> /\ Head(s) \in Whitespace THEN lstrip(Tail(s)) ELSE s

RECURSIVE rstrip(_)
rstrip(s) ==
  IF s # <<>> /\ s[Len(s)] \in Whitespace
  THEN rstrip(SubSeq(s, 1, Len(s) - 1))
  ELSE s

\* str.strip()
strip(s) == rstrip(lstrip(s))

\* "Error: Execution timed out"
TimedOutMessage ==
  <<"E","r","r","o","r",":"," ","E","x","e","c","u","t","i","o","n"," ",
    "t","i","m","e","d"," ","o","u","t">>

\* "Dependency install failed:\n"
InstallFailedPrefix ==
  <<"D","e","p","e","n","d","e","n","c","y"," ","i","n","s","t","a","l","l",
    " ","f","a","i","l","e","d",":","\n">>

\* streams of a child that writes the texts of this program itself
EchoStreams == {TimedOutMessage, InstallFailedPrefix \o <<"a">>}

\* os.path.join(a, b)
path_join(a, b) == a \o "/" \o b

\* ------------------------------------------------------------ run_command
\* run_command_completed without the two strip() calls
run_command_unstripped(returncode, out, err) ==
  [returncode |-> returncode, stdout |-> out, stderr |-> err]

\* lines 12-16: the record of a child that terminated within the timeout
run_command_completed(returncode, out, err) ==
  [returncode |-> returncode, stdout |-> strip(out), stderr |-> strip(err)]

\* run_command_timeout with the returncode of a generic failure
run_command_timeout_generic ==
  [returncode |-> 0 - 1, stdout |-> <<>>, stderr |-> TimedOutMessage]

\* lines 17-22: the record of the TimeoutExpired handler
run_command_timeout ==
  [returncode |-> TIMEOUT_RETURNCODE, stdout |-> <<>>, stderr |-> TimedOutMessage]

\* the exceptions subprocess.run raises when the child cannot be started;
\* run_command has no handler for them
SpawnFaults == {"FileNotFoundError", "PermissionError"}

\* line 37: the record of the no-packages fast path
install_noop == [returncode |-> 0, stdout |-> <<>>, stderr |-> <<>>]

\* line 39: cmd = [install_cmd_path, "install"] + packages
install_cmd(install_cmd_path, packages) ==
  <<install_cmd_path, "install">> \o packages.items

\* line 40: run_command(cmd), the cwd parameter left at its default
install_cwd(dir) == None

\* install_failed without the f-string around the install's stderr
install_failed_bare(result) ==
  [returncode |-> result.returncode,
   stdout |-> result.stdout,
   stderr |-> result.stderr]

\* install_failed with the marker after the install's stderr
install_failed_appended(result) ==
  [returncode |-> result.returncode,
   stdout |-> result.stdout,
   stderr |-> result.stderr \o InstallFailedPrefix]

\* lines 64-68 and 110-114: the install-failure record
install_failed(result) ==
  [returncode |-> result.returncode,
   stdout |-> result.stdout,
   stderr |-> InstallFailedPrefix \o result.stderr]

\* ---------------------------------------------------------------- state
VARIABLES
  env,             \* the callers and the streams children write (fixed by Init)
  pc,              \* pc[p]: the line the invocation p is at
  req,             \* req[p]: the arguments of code_exec_node
  temp_dir,        \* temp_dir[p]: the local of run_in_tempdir
  install_result,  \* install_result[p]: the local of both pipelines
  pending,         \* pending[p]: what the try body left with, held by finally
  outcome,         \* outcome[p]: what the caller of code_exec_node received
  fs,              \* fs[d][f]: the content of file f of the existing directory d
  spawned,         \* spawned[p]: the children spawned by p, in order
  events,          \* events[p]: the filesystem and process calls of p, in order
  history          \* what a caller got from its earlier deterministic inline calls

vars ==
  <<env, pc, req, temp_dir, install_result, pending, outcome, fs, spawned, events,
    history>>

NoResult == [kind |-> "none"]
Returned(value) == [kind |-> "return", value |-> value]
Raised(fault) == [kind |-> "raise", fault |-> fault]

NoRequest ==
  [code |-> "", packages |-> [present |-> FALSE, items |-> <<>>], use_temp_dir |-> FALSE]

InitVars ==
  /\ pc = [p \in Procs |-> "idle"]
  /\ req = [p \in Procs |-> NoRequest]
  /\ temp_dir = [p \in Procs |-> None]
  /\ install_result = [p \in Procs |-> NoResult]
  /\ pending = [p \in Procs |-> NoResult]
  /\ outcome = [p \in Procs |-> NoResult]
  /\ fs = (ProcessCwd :> <<>>)
  /\ spawned = [p \in Procs |-> <<>>]
  /\ events = [p \in Procs |-> <<>>]
  /\ history = {}

\* one caller, one call; children write any stream of RawStreams or echo
\* the texts of this program
Init ==
  /\ env = [callers |-> {"p1"}, streams |-> RawStreams \cup EchoStreams, codes |-> Codes]
  /\ InitVars

\* ---------------------------------------------------------------- helpers
Event(op, arg, ok) == [op |-> op, arg |-> arg, ok |-> ok]

Log(p, e) == events' = [events EXCEPT ![p] = Append(@, e)]

\* the child subprocess.run of p is waiting for
child(p) == spawned[p][Len(spawned[p])]

\* the directory a child started with cwd runs in
effective_cwd(cwd) == IF cwd = None THEN ProcessCwd ELSE cwd

\* open(path, "w").write(content) in the directory dir
write_file(dir, name, content) ==
  fs' = [fs EXCEPT ![dir] = (name :> content) @@ @]

\* Leave with the rmtree call after the try body instead of in a finally
\* clause: an exception skips it
Leave_unprotected(p, res) ==
  IF req[p].use_temp_dir /\ res.kind = "return"
  THEN /\ pending' = [pending EXCEPT ![p] = res]
       /\ pc' = [pc EXCEPT ![p] = "finally"]
       /\ UNCHANGED outcome
  ELSE /\ outcome' = [outcome EXCEPT ![p] = res]
       /\ pc' = [pc EXCEPT ![p] = "done"]
       /\ UNCHANGED pending

\* the pipeline of p ends with res: run_in_tempdir passes through finally,
\* the inline pipeline hands res to the caller
Leave(p, res) ==
  IF req[p].use_temp_dir
  THEN /\ pending' = [pending EXCEPT ![p] = res]
       /\ pc' = [pc EXCEPT ![p] = "finally"]
       /\ UNCHANGED outcome
  ELSE /\ outcome' = [outcome EXCEPT ![p] = res]
       /\ pc' = [pc EXCEPT ![p] = "done"]
       /\ UNCHANGED pending

\* line 11: subprocess.run starts the child cmd in cwd
StartChild(p, cmd, cwd, dur) ==
  spawned' = [spawned EXCEPT ![p] =
                Append(@, [cmd |-> cmd, cwd |-> cwd, dur |-> dur,
                           end |-> "running", result |-> NoResult])]

\* rmtree that empties the directory and leaves it in place
rmtree_contents(f, dir) == [f EXCEPT ![dir] = <<>>]

\* shutil.rmtree(dir): the directory and everything in it are gone
rmtree(f, dir) == [d \in DOMAIN f \ {dir} |-> f[d]]

\* not_packages as `packages is None`
packages_is_none(packages) == ~packages.present

\* line 36: `not packages` holds of None and of the empty list
not_packages(packages) == ~packages.present \/ Len(packages.items) = 0

\* install_nonzero as `install_result["returncode"] > 0`
install_positive(result) == result.returncode > 0

\* lines 63 and 109: install_result["returncode"] != 0
install_nonzero(result) == result.returncode # 0

\* mkdtemp with one fixed directory name for every call
mkdtemp_fixed(f) == {"/tmp/tmpA"}

\* line 56: tempfile.mkdtemp() creates a directory that did not exist
mkdtemp_names(f) == TempNames \ DOMAIN f

\* an exception of type exc raised by the stage at
Fault(exc, at) == [exc |-> exc, at |-> at]

\* ---------------------------------------------------------------- actions
\* lines 80-106: a caller invokes code_exec_node(code, packages, use_temp_dir)
Call(p) ==
  /\ p \in env.callers
  /\ pc[p] = "idle"
  /\ \E code \in env.codes, packages \in PackageLists, use_temp_dir \in BOOLEAN :
       /\ req' = [req EXCEPT ![p] = [code |-> code, packages |-> packages,
                                     use_temp_dir |-> use_temp_dir]]
       /\ pc' = [pc EXCEPT ![p] = IF use_temp_dir THEN "mkdtemp" ELSE "install"]
  /\ UNCHANGED <<env, history, temp_dir, install_result, pending, outcome, fs, spawned, events>>

\* line 56: temp_dir = tempfile.mkdtemp(), before the try statement
Mkdtemp(p) ==
  /\ pc[p] = "mkdtemp"
  /\ \/ \E d \in mkdtemp_names(fs) :
          /\ fs' = (d :> <<>>) @@ fs
          /\ temp_dir' = [temp_dir EXCEPT ![p] = d]
          /\ pc' = [pc EXCEPT ![p] = "write_meta"]
          /\ Log(p, Event("mkdtemp", d, TRUE))
          /\ UNCHANGED outcome
     \/ /\ outcome' = [outcome EXCEPT ![p] = Raised(Fault("OSError", "mkdtemp"))]
        /\ pc' = [pc EXCEPT ![p] = "done"]
        /\ Log(p, Event("mkdtemp", None, FALSE))
        /\ UNCHANGED <<fs, temp_dir>>
  /\ UNCHANGED <<env, history, req, install_result, pending, spawned>>

\* lines 59-60: the package.json of the workspace
WriteMeta(p) ==
  /\ pc[p] = "write_meta"
  /\ \/ /\ write_file(temp_dir[p], "package.json", "{\"type\": \"module\"}")
        /\ pc' = [pc EXCEPT ![p] = "install"]
        /\ Log(p, Event("write", path_join(temp_dir[p], "package.json"), TRUE))
        /\ UNCHANGED <<pending, outcome>>
     \/ /\ Leave(p, Raised(Fault("OSError", "package.json")))
        /\ Log(p, Event("write", path_join(temp_dir[p], "package.json"), FALSE))
        /\ UNCHANGED fs
  /\ UNCHANGED <<env, history, req, temp_dir, install_result, spawned>>

\* lines 62 and 108, 36-40, 11: install_dependencies(packages, "npm") up to
\* the start of the package manager
Install(p) ==
  /\ pc[p] = "install"
  /\ IF not_packages(req[p].packages)
     THEN /\ install_result' = [install_result EXCEPT ![p] = install_noop]
          /\ pc' = [pc EXCEPT ![p] = "check_install"]
          /\ UNCHANGED <<pending, outcome, spawned, events>>
     ELSE \/ \E dur \in Durations :
               /\ StartChild(p, install_cmd("npm", req[p].packages),
                             install_cwd(temp_dir[p]), dur)
               /\ pc' = [pc EXCEPT ![p] = "install_wait"]
               /\ Log(p, Event("spawn", "npm", TRUE))
               /\ UNCHANGED <<install_result, pending, outcome>>
          \/ \E exc \in SpawnFaults :
               /\ Leave(p, Raised(Fault(exc, "npm")))
               /\ Log(p, Event("spawn", "npm", FALSE))
               /\ UNCHANGED <<install_result, spawned>>
  /\ UNCHANGED <<env, history, req, temp_dir, fs>>

\* Deliver with a retry loop around the interpreter: a nonzero exit runs
\* the snippet again
Deliver_retry(p, r) ==
  IF pc[p] = "install_wait"
  THEN /\ install_result' = [install_result EXCEPT ![p] = r]
       /\ pc' = [pc EXCEPT ![p] = "check_install"]
       /\ UNCHANGED <<pending, outcome>>
  ELSE IF r.returncode # 0
       THEN /\ pc' = [pc EXCEPT ![p] = "run"]
            /\ UNCHANGED <<install_result, pending, outcome>>
       ELSE /\ Leave(p, Returned(r))
            /\ UNCHANGED install_result

\* Deliver with the install-failure wrapper applied to the interpreter's
\* record too
Deliver_wrapped(p, r) ==
  IF pc[p] = "install_wait"
  THEN /\ install_result' = [install_result EXCEPT ![p] = r]
       /\ pc' = [pc EXCEPT ![p] = "check_install"]
       /\ UNCHANGED <<pending, outcome>>
  ELSE /\ Leave(p, Returned(IF r.returncode # 0 THEN install_failed(r) ELSE r))
       /\ UNCHANGED install_result

\* the result r of run_command reaches the statement that called it
Deliver(p, r) ==
  IF pc[p] = "install_wait"
  THEN /\ install_result' = [install_result EXCEPT ![p] = r]
       /\ pc' = [pc EXCEPT ![p] = "check_install"]
       /\ UNCHANGED <<pending, outcome>>
  ELSE /\ Leave(p, Returned(r))
       /\ UNCHANGED install_result

\* what the child leaves in its working directory: a successful install
\* creates node_modules there
child_effect(f, c, returncode) ==
  IF c.cmd[1] = "npm" /\ returncode = 0 /\ effective_cwd(c.cwd) \in DOMAIN f
  THEN [f EXCEPT ![effective_cwd(c.cwd)] = ("node_modules" :> "<dir>") @@ @]
  ELSE f

\* the snippet the interpreter c executes: the -e argument, or the script
\* file of its working directory
node_source(f, c) ==
  IF c.cmd[2] = "-e" THEN c.cmd[3]
  ELSE IF c.cwd \in DOMAIN f /\ "script.js" \in DOMAIN f[c.cwd] THEN f[c.cwd]["script.js"]
  ELSE ""

\* the exit status and streams of a deterministic snippet run in dir: the
\* import resolves exactly when dir holds node_modules
node_eval(f, dir) ==
  IF dir \in DOMAIN f /\ "node_modules" \in DOMAIN f[dir]
  THEN [returncode |-> 0, out |-> <<>>, err |-> <<>>]
  ELSE [returncode |-> 1, out |-> <<>>, err |-> <<"a">>]

\* what the child c may exit with: any status and streams, unless it is
\* the interpreter of a deterministic snippet
child_exits(f, c, streams) ==
  IF c.cmd[1] = "node" /\ node_source(f, c) \in DeterministicCodes
  THEN {node_eval(f, effective_cwd(c.cwd))}
  ELSE [returncode : ReturnCodes, out : streams, err : streams]

\* how long the interpreter may run: a deterministic snippet ends at once
node_durations(code) == IF code \in DeterministicCodes THEN {1} ELSE Durations

\* lines 11-16: the child terminates by itself within the timeout
ChildExit(p) ==
  /\ pc[p] \in {"install_wait", "run_wait"}
  /\ child(p).dur <= TIMEOUT
  /\ \E x \in child_exits(fs, child(p), env.streams) :
       LET r == run_command_completed(x.returncode, x.out, x.err) IN
         /\ spawned' = [spawned EXCEPT ![p][Len(spawned[p])] =
                          [@ EXCEPT !.end = IF x.returncode < 0 THEN "signal" ELSE "exit",
                                    !.result = r]]
         /\ fs' = child_effect(fs, child(p), x.returncode)
         /\ Deliver(p, r)
  /\ Log(p, Event("exit", child(p).cmd[1], TRUE))
  /\ UNCHANGED <<env, history, req, temp_dir>>

\* ChildTimeout that gives up waiting and leaves the child running
ChildTimeout_nokill(p) ==
  /\ pc[p] \in {"install_wait", "run_wait"}
  /\ child(p).dur >= TIMEOUT
  /\ spawned' = [spawned EXCEPT ![p][Len(spawned[p])] =
                   [@ EXCEPT !.result = run_command_timeout]]
  /\ Deliver(p, run_command_timeout)
  /\ Log(p, Event("timeout", child(p).cmd[1], TRUE))
  /\ UNCHANGED <<env, history, req, temp_dir, fs>>

\* lines 11, 17-22: the child is still running when the timeout expires;
\* subprocess.run kills it and raises TimeoutExpired
ChildTimeout(p) ==
  /\ pc[p] \in {"install_wait", "run_wait"}
  /\ child(p).dur >= TIMEOUT
  /\ spawned' = [spawned EXCEPT ![p][Len(spawned[p])] =
                   [@ EXCEPT !.end = "timeout", !.result = run_command_timeout]]
  /\ Deliver(p, run_command_timeout)
  /\ Log(p, Event("kill", child(p).cmd[1], TRUE))
  /\ UNCHANGED <<env, history, req, temp_dir, fs>>

\* lines 63-68 and 109-114: the install-failure short circuit
CheckInstall(p) ==
  /\ pc[p] = "check_install"
  /\ IF install_nonzero(install_result[p])
     THEN Leave(p, Returned(install_failed(install_result[p])))
     ELSE /\ pc' = [pc EXCEPT ![p] = IF req[p].use_temp_dir THEN "write_script" ELSE "run"]
          /\ UNCHANGED <<pending, outcome>>
  /\ UNCHANGED <<env, history, req, temp_dir, install_result, fs, spawned, events>>

\* lines 70-72: the snippet file of the workspace
WriteScript(p) ==
  /\ pc[p] = "write_script"
  /\ \/ /\ write_file(temp_dir[p], "script.js", req[p].code)
        /\ pc' = [pc EXCEPT ![p] = "run"]
        /\ Log(p, Event("write", path_join(temp_dir[p], "script.js"), TRUE))
        /\ UNCHANGED <<pending, outcome>>
     \/ /\ Leave(p, Raised(Fault("OSError", "script.js")))
        /\ Log(p, Event("write", path_join(temp_dir[p], "script.js"), FALSE))
        /\ UNCHANGED fs
  /\ UNCHANGED <<env, history, req, temp_dir, install_result, spawned>>

\* line 74: ["node", temp_path] with cwd=temp_dir; line 116: ["node", "-e", code]
node_cmd(r, dir) ==
  IF r.use_temp_dir THEN <<"node", path_join(dir, "script.js")>>
                    ELSE <<"node", "-e", r.code>>

node_cwd(r, dir) == IF r.use_temp_dir THEN dir ELSE None

\* lines 74 and 116, 11: run_command up to the start of the interpreter
Run(p) ==
  /\ pc[p] = "run"
  /\ \/ \E dur \in node_durations(req[p].code) :
          /\ StartChild(p, node_cmd(req[p], temp_dir[p]), node_cwd(req[p], temp_dir[p]), dur)
          /\ pc' = [pc EXCEPT ![p] = "run_wait"]
          /\ Log(p, Event("spawn", "node", TRUE))
          /\ UNCHANGED <<pending, outcome>>
     \/ \E exc \in SpawnFaults :
          /\ Leave(p, Raised(Fault(exc, "node")))
          /\ Log(p, Event("spawn", "node", FALSE))
          /\ UNCHANGED spawned
  /\ UNCHANGED <<env, history, req, temp_dir, install_result, fs>>

\* lines 76-77: finally: shutil.rmtree(temp_dir); an exception of rmtree
\* replaces the pending return value or exception
Finally(p) ==
  /\ pc[p] = "finally"
  /\ \/ /\ fs' = rmtree(fs, temp_dir[p])
        /\ outcome' = [outcome EXCEPT ![p] = pending[p]]
        /\ Log(p, Event("rmtree", temp_dir[p], TRUE))
     \/ /\ outcome' = [outcome EXCEPT ![p] = Raised(Fault("OSError", "rmtree"))]
        /\ Log(p, Event("rmtree", temp_dir[p], FALSE))
        /\ UNCHANGED fs
  /\ pc' = [pc EXCEPT ![p] = "done"]
  /\ UNCHANGED <<env, history, req, temp_dir, install_result, pending, spawned>>

Next ==
  \E p \in Procs :
    \/ Call(p)
    \/ Mkdtemp(p)
    \/ WriteMeta(p)
    \/ Install(p)
    \/ ChildExit(p)
    \/ ChildTimeout(p)
    \/ CheckInstall(p)
    \/ WriteScript(p)
    \/ Run(p)
    \/ Finally(p)

Spec == Init /\ [][Next]_vars

\* ------------------------------------------------------- concurrent calls
\* two callers whose calls may overlap; children write nothing
InitConc ==
  /\ env = [callers |-> Procs, streams |-> {<<>>}, codes |-> Codes \ DeterministicCodes]
  /\ InitVars

SpecConc == InitConc /\ [][Next]_vars

\* ------------------------------------------------------- successive calls
\* the request r is an inline, no-package call of a deterministic snippet
Repeatable(r) ==
  ~r.use_temp_dir /\ not_packages(r.packages) /\ r.code \in DeterministicCodes

\* what the caller keeps of a finished call
Remembered(r, o) ==
  IF Repeatable(r) /\ o.kind = "return"
  THEN {[code |-> r.code, returncode |-> o.value.returncode, stdout |-> o.value.stdout]}
  ELSE {}

\* lines 80-116: the call of p is over; the caller is free to call
\* code_exec_node again; the locals of the finished call are gone
Again(p) ==
  /\ pc[p] = "done"
  /\ history' = history \cup Remembered(req[p], outcome[p])
  /\ pc' = [pc EXCEPT ![p] = "idle"]
  /\ req' = [req EXCEPT ![p] = NoRequest]
  /\ temp_dir' = [temp_dir EXCEPT ![p] = None]
  /\ install_result' = [install_result EXCEPT ![p] = NoResult]
  /\ pending' = [pending EXCEPT ![p] = NoResult]
  /\ outcome' = [outcome EXCEPT ![p] = NoResult]
  /\ spawned' = [spawned EXCEPT ![p] = <<>>]
  /\ events' = [events EXCEPT ![p] = <<>>]
  /\ UNCHANGED <<env, fs>>

\* one caller calling again and again; children write short streams
InitSeq ==
  /\ env = [callers |-> {"p1"}, streams |-> {<<>>, <<"a">>}, codes |-> Codes]
  /\ InitVars

NextSeq ==
  \E p \in Procs :
    \/ Call(p)
    \/ Mkdtemp(p)
    \/ WriteMeta(p)
    \/ Install(p)
    \/ ChildExit(p)
    \/ ChildTimeout(p)
    \/ CheckInstall(p)
    \/ WriteScript(p)
    \/ Run(p)
    \/ Finally(p)
    \/ Again(p)

SpecSeq == InitSeq /\ [][NextSeq]_vars

\* ------------------------------------------------------------------ types
TypeOK ==
  /\ DOMAIN fs \subseteq TempNames \cup {ProcessCwd}
  /\ \A p \in Procs :
       /\ pc[p] \in {"idle", "mkdtemp", "write_meta", "install", "install_wait",
                     "check_install", "write_script", "run", "run_wait", "finally", "done"}
       /\ outcome[p].kind \in {"none", "return", "raise"}
       /\ pc[p] = "done" <=> outcome[p].kind # "none"
       /\ Len(spawned[p]) <= 2

\* ------------------------------------------------------------ claim terms
\* the children of p, by position
Children(p) == 1..Len(spawned[p])

\* p made the filesystem or process call op on arg
Did(p, op, arg) ==
  \E i \in 1..Len(events[p]) : events[p][i].op = op /\ events[p][i].arg = arg

\* the request of p has an empty or absent package list
NoPackages(p) == ~req[p].packages.present \/ req[p].packages.items = <<>>

\* the install stage of p has returned a nonzero exit code
InstallFailed(p) ==
  /\ install_result[p] # NoResult
  /\ install_result[p].returncode # 0

\* p is an isolated invocation whose workspace was created
HasWorkspace(p) == req[p].use_temp_dir /\ temp_dir[p] # None

\* --------------------------------------------------------------------- C1
\* C1: an isolated call that has returned a record has left no workspace
\* behind: the directory it created does not exist any more.
C1_WorkspaceGoneAfterReturn ==
  \A p \in Procs :
    (req[p].use_temp_dir /\ outcome[p].kind = "return")
      => (temp_dir[p] # None /\ temp_dir[p] \notin DOMAIN fs)

\* an isolated call returned the timeout record of the interpreter
C1_Witness ==
  \E p \in Procs :
    /\ req[p].use_temp_dir
    /\ outcome[p].kind = "return"
    /\ outcome[p].value.returncode = 0 - 2
    /\ Len(spawned[p]) = 1
    /\ spawned[p][1].end = "timeout"
    /\ Did(p, "mkdtemp", temp_dir[p])

\* --------------------------------------------------------------------- C2
\* C2: every package-manager process of an isolated call runs with the
\* workspace of that call as its working directory.
C2_InstallRunsInWorkspace ==
  \A p \in Procs : \A i \in Children(p) :
    (req[p].use_temp_dir /\ spawned[p][i].cmd[1] = "npm")
      => spawned[p][i].cwd = temp_dir[p]

\* --------------------------------------------------------------------- C3
\* C3: once the install stage returned a nonzero exit code, the snippet
\* file is never written, no interpreter is spawned, and the install
\* process is the only child of the request.
C3_NoRunAfterInstallFailure ==
  \A p \in Procs :
    InstallFailed(p) =>
      /\ \A d \in TempNames : ~Did(p, "write", path_join(d, "script.js"))
      /\ \A d \in DOMAIN fs : "script.js" \notin DOMAIN fs[d]
      /\ \A i \in Children(p) : spawned[p][i].cmd[1] # "node"
      /\ Len(spawned[p]) = 1
      /\ pc[p] \in {"check_install", "finally", "done"}

\* a request ended after an install that was killed by a signal
C3_Witness ==
  \E p \in Procs :
    /\ InstallFailed(p)
    /\ install_result[p].returncode < 0
    /\ spawned[p][1].end = "signal"
    /\ pc[p] = "done"

\* --------------------------------------------------------------------- C4
\* C4: after a nonzero install, the record the facade returns carries the
\* install's exit code, the install's stdout, and the install's stderr
\* behind the line "Dependency install failed:".
C4_InstallFailureRecord ==
  \A p \in Procs :
    (InstallFailed(p) /\ outcome[p].kind = "return") =>
      /\ outcome[p].value.returncode = spawned[p][1].result.returncode
      /\ outcome[p].value.stdout = spawned[p][1].result.stdout
      /\ outcome[p].value.stderr = InstallFailedPrefix \o spawned[p][1].result.stderr

\* an inline call returned the record of an install that exited with 1
\* and wrote to both streams
C4_Witness ==
  \E p \in Procs :
    /\ InstallFailed(p)
    /\ ~req[p].use_temp_dir
    /\ outcome[p].kind = "return"
    /\ outcome[p].value.returncode = 1
    /\ outcome[p].value.stdout = <<"a">>
    /\ Len(outcome[p].value.stderr) = Len(InstallFailedPrefix) + 1

\* --------------------------------------------------------------------- C5
\* C5: with an empty or absent package list no package manager is ever
\* spawned, the install stage yields returncode 0 with empty streams, and
\* the request is never cut short by the install stage: every record it
\* returns comes from the interpreter.
C5_NoPackagesNoInstall ==
  \A p \in Procs :
    (pc[p] # "idle" /\ NoPackages(p)) =>
      /\ \A i \in Children(p) : spawned[p][i].cmd[1] # "npm"
      /\ ~Did(p, "spawn", "npm")
      /\ pc[p] \in {"check_install", "write_script", "run", "run_wait"}
           => install_result[p] = [returncode |-> 0, stdout |-> <<>>, stderr |-> <<>>]
      /\ outcome[p].kind = "return"
           => (Len(spawned[p]) = 1 /\ outcome[p].value = spawned[p][1].result)

\* a call with the empty list (not None) reached the interpreter
C5_Witness ==
  \E p \in Procs :
    /\ req[p].packages.present
    /\ req[p].packages.items = <<>>
    /\ pc[p] = "run_wait"
    /\ spawned[p][1].cmd[1] = "node"

\* --------------------------------------------------------------------- C6
\* C6: no failure to start a child leaves run_command as an exception: no
\* fault of the package manager's or the interpreter's start is pending in
\* the pipeline or reaches the caller.
C6_RunCommandNeverRaises ==
  \A p \in Procs :
    /\ pending[p].kind = "raise" => pending[p].fault.at \notin {"npm", "node"}
    /\ outcome[p].kind = "raise" => outcome[p].fault.at \notin {"npm", "node"}

\* --------------------------------------------------------------------- C7
\* C7: a child still running when the timeout of 60 expires is killed and
\* run_command returns returncode -2, stdout '' and stderr
\* 'Error: Execution timed out'; no TimeoutExpired reaches the pipeline.
C7_TimeoutRecord ==
  \A p \in Procs :
    /\ \A i \in Children(p) :
         /\ spawned[p][i].end = "timeout" =>
              /\ spawned[p][i].dur >= 60
              /\ spawned[p][i].result.returncode = 0 - 2
              /\ spawned[p][i].result.stdout = <<>>
              /\ spawned[p][i].result.stderr = TimedOutMessage
         /\ (spawned[p][i].end # "running" /\ spawned[p][i].dur > 60)
              => spawned[p][i].end = "timeout"
    /\ pending[p].kind = "raise" => pending[p].fault.exc # "TimeoutExpired"
    /\ outcome[p].kind = "raise" => outcome[p].fault.exc # "TimeoutExpired"

\* the interpreter of an inline call ran past the timeout and the caller
\* received the timeout record
C7_Witness ==
  \E p \in Procs :
    /\ ~req[p].use_temp_dir
    /\ Len(spawned[p]) = 1
    /\ spawned[p][1].dur > 60
    /\ spawned[p][1].end = "timeout"
    /\ outcome[p] = Returned(spawned[p][1].result)

\* --------------------------------------------------------------------- C8
\* C8: an outcome of run_command has returncode -2 exactly when its child
\* timed out.
C8_TimeoutCodeReserved ==
  \A p \in Procs : \A i \in Children(p) :
    spawned[p][i].end # "running"
      => (spawned[p][i].result.returncode = 0 - 2 <=> spawned[p][i].end = "timeout")

\* --------------------------------------------------------------------- C9
\* C9: an isolated call whose pipeline left a record for the caller hands
\* the caller that record, also when the deletion of the workspace failed.
C9_OutcomeSurvivesCleanupFailure ==
  \A p \in Procs :
    (pc[p] = "done" /\ HasWorkspace(p) /\ pending[p].kind = "return")
      => outcome[p] = pending[p]

\* -------------------------------------------------------------------- C10
\* C10: when the pipeline of an isolated call faulted after the workspace
\* was created, rmtree has been called on the workspace by the time the
\* call ends, and a caller who receives that fault finds no workspace.
C10_CleanupOnFault ==
  \A p \in Procs :
    (pc[p] = "done" /\ HasWorkspace(p) /\ outcome[p].kind = "raise") =>
      /\ Did(p, "rmtree", temp_dir[p])
      /\ events[p][Len(events[p])].op = "rmtree"
      /\ outcome[p].fault.at # "rmtree" => temp_dir[p] \notin DOMAIN fs

\* the start of the interpreter failed in an isolated call and the caller
\* received that fault after the workspace was deleted
C10_Witness ==
  \E p \in Procs :
    /\ pc[p] = "done"
    /\ HasWorkspace(p)
    /\ outcome[p].kind = "raise"
    /\ outcome[p].fault.at = "node"
    /\ Did(p, "write", path_join(temp_dir[p], "script.js"))

\* -------------------------------------------------------------------- C11
\* the call of p is in progress
Active(p) == pc[p] \notin {"idle", "done"}

\* the directories p or its children have written to: its workspace and
\* the working directory of its package manager
Written(p) ==
  (IF temp_dir[p] # None THEN {temp_dir[p]} ELSE {})
    \cup {effective_cwd(spawned[p][i].cwd) :
            i \in {j \in Children(p) : spawned[p][j].cmd[1] = "npm"}}

\* the directories p or its children have written to or read from: those
\* of Written and the working directory of its interpreter
Used(p) ==
  Written(p) \cup {effective_cwd(spawned[p][i].cwd) : i \in Children(p)}

\* C11: of two calls in progress at the same time, neither reads or
\* writes a directory the other one has written to.
C11_NoSharedLocations ==
  \A p \in Procs : \A q \in Procs \ {p} :
    (Active(p) /\ Active(q)) => Written(p) \cap Used(q) = {}

\* -------------------------------------------------------------------- C12
\* s has no leading and no trailing whitespace
Trimmed(s) == s = <<>> \/ (s[1] \notin Whitespace /\ s[Len(s)] \notin Whitespace)

\* the fields of an outcome record
RecordFields == {"returncode", "stdout", "stderr"}

\* C12 as stated: every returned record has exactly the three fields, and
\* its stdout and stderr have no leading or trailing whitespace.
C12_TrimmedRecord ==
  \A p \in Procs :
    outcome[p].kind = "return" =>
      /\ DOMAIN outcome[p].value = RecordFields
      /\ Trimmed(outcome[p].value.stdout)
      /\ Trimmed(outcome[p].value.stderr)

\* C12 as amended: every returned record has exactly the three fields, its
\* stdout has no leading or trailing whitespace, and neither has its
\* stderr, except after a failed install whose stderr was empty: then
\* stderr is "Dependency install failed:" with its trailing newline.
C12_TrimmedRecordAmended ==
  \A p \in Procs :
    outcome[p].kind = "return" =>
      /\ DOMAIN outcome[p].value = RecordFields
      /\ Trimmed(outcome[p].value.stdout)
      /\ \/ Trimmed(outcome[p].value.stderr)
         \/ /\ InstallFailed(p)
            /\ spawned[p][1].result.stderr = <<>>
            /\ outcome[p].value.stderr = InstallFailedPrefix

\* an install failed without a word on stderr and the caller got the
\* record of that failure
C12_Witness ==
  \E p \in Procs :
    /\ outcome[p].kind = "return"
    /\ InstallFailed(p)
    /\ spawned[p][1].end \in {"exit", "signal"}
    /\ outcome[p].value.stderr = InstallFailedPrefix
    /\ ~Trimmed(outcome[p].value.stderr)

\* -------------------------------------------------------------------- C13
\* C13: a call has at most two children, at most one package manager and
\* at most one interpreter; the package manager exists only when packages
\* were requested, it comes first, and every child but the last has
\* terminated, so the interpreter starts after the install has ended.
C13_TwoSequentialChildren ==
  \A p \in Procs :
    /\ Len(spawned[p]) <= 2
    /\ Cardinality({i \in Children(p) : spawned[p][i].cmd[1] = "node"}) <= 1
    /\ Cardinality({i \in Children(p) : spawned[p][i].cmd[1] = "npm"}) <= 1
    /\ \A i \in Children(p) :
         /\ spawned[p][i].cmd[1] = "npm" => (i = 1 /\ ~NoPackages(p))
         /\ i < Len(spawned[p]) => spawned[p][i].end # "running"
    /\ Cardinality({i \in 1..Len(events[p]) :
                      events[p][i].op = "spawn" /\ events[p][i].ok}) = Len(spawned[p])

\* a call ended after an install and an interpreter that exited nonzero
C13_Witness ==
  \E p \in Procs :
    /\ pc[p] = "done"
    /\ Len(spawned[p]) = 2
    /\ spawned[p][1].cmd[1] = "npm"
    /\ spawned[p][2].cmd[1] = "node"
    /\ spawned[p][2].result.returncode = 1

\* -------------------------------------------------------------------- C14
\* C14: after an install that succeeded or was skipped, the record the
\* caller receives is the run_command outcome of the interpreter, field
\* for field; an isolated call returns what its try body returned.
C14_RunOutcomeVerbatim ==
  \A p \in Procs :
    /\ (outcome[p].kind = "return" /\ ~InstallFailed(p)) =>
         /\ spawned[p] # <<>>
         /\ child(p).cmd[1] = "node"
         /\ outcome[p].value = child(p).result
    /\ (outcome[p].kind = "return" /\ req[p].use_temp_dir) => outcome[p] = pending[p]

\* an isolated call with packages returned the record of an interpreter
\* that exited with 1 and wrote to stderr
C14_Witness ==
  \E p \in Procs :
    /\ req[p].use_temp_dir
    /\ outcome[p].kind = "return"
    /\ Len(spawned[p]) = 2
    /\ spawned[p][2].end = "exit"
    /\ outcome[p].value.returncode = 1
    /\ outcome[p].value.stderr = <<"a">>

\* -------------------------------------------------------------------- C17
\* C17: the events of an isolated call start with mkdtemp and rmtree is
\* the last of them; while its interpreter runs the workspace exists and
\* holds package.json and script.js; when rmtree is called no child of the
\* call is running any more.
C17_WorkspaceLifecycle ==
  \A p \in Procs :
    req[p].use_temp_dir =>
      /\ events[p] # <<>> => events[p][1].op = "mkdtemp"
      /\ \A i \in 1..Len(events[p]) :
           events[p][i].op = "rmtree" =>
             (i = Len(events[p]) /\ events[p][i].arg = temp_dir[p])
      /\ pc[p] = "run_wait" =>
           /\ child(p).cwd = temp_dir[p]
           /\ temp_dir[p] \in DOMAIN fs
           /\ {"package.json", "script.js"} \subseteq DOMAIN fs[temp_dir[p]]
           /\ fs[temp_dir[p]]["script.js"] = req[p].code
      /\ Did(p, "rmtree", temp_dir[p]) =>
           \A i \in Children(p) : spawned[p][i].end # "running"

\* the interpreter of an isolated call was killed at the timeout and the
\* workspace was deleted afterwards
C17_Witness ==
  \E p \in Procs :
    /\ req[p].use_temp_dir
    /\ pc[p] = "done"
    /\ spawned[p] # <<>>
    /\ child(p).cmd[1] = "node"
    /\ child(p).end = "timeout"
    /\ events[p][Len(events[p])] = Event("rmtree", temp_dir[p], TRUE)
    /\ temp_dir[p] \notin DOMAIN fs

\* -------------------------------------------------------------------- C15
\* C15: a call that has ended has handed its caller an outcome record.
C15_EndsWithRecord ==
  \A p \in Procs : pc[p] = "done" => outcome[p].kind = "return"

\* -------------------------------------------------------------------- C16
\* C16: an inline, no-package call of a deterministic snippet returns the
\* returncode and stdout that every earlier call of the same request
\* returned, whatever was called in between.
C16_RepeatableResult ==
  \A p \in Procs :
    (pc[p] = "done" /\ Repeatable(req[p]) /\ outcome[p].kind = "return") =>
      \A h \in history :
        h.code = req[p].code =>
          /\ h.returncode = outcome[p].value.returncode
          /\ h.stdout = outcome[p].value.stdout

\* -------------------------------------------------------------------- C18
\* p holds a workspace: it has created one and its call has not ended
Holds(p) == HasWorkspace(p) /\ pc[p] # "done"

\* the paths run_in_tempdir of p may write, create or delete
OwnPaths(p) ==
  {temp_dir[p], path_join(temp_dir[p], "package.json"), path_join(temp_dir[p], "script.js")}

\* C18: two calls never hold the same workspace path at the same time; a
\* call creates, writes and deletes only its own workspace; and the
\* workspace a call holds exists, whatever the other calls have deleted.
C18_WorkspaceExclusive ==
  \A p \in Procs :
    /\ \A q \in Procs \ {p} : (Holds(p) /\ Holds(q)) => temp_dir[p] # temp_dir[q]
    /\ Holds(p) => temp_dir[p] \in DOMAIN fs
    /\ HasWorkspace(p) =>
         \A i \in 1..Len(events[p]) :
           events[p][i].op \in {"mkdtemp", "write", "rmtree"}
             => events[p][i].arg \in OwnPaths(p)

\* one call is about to delete its workspace while the interpreter of
\* another call runs in its own
C18_Witness ==
  \E p \in Procs : \E q \in Procs \ {p} :
    /\ Holds(p) /\ pc[p] = "finally"
    /\ Holds(q) /\ pc[q] = "run_wait"
    /\ child(q).cwd = temp_dir[q]

\* -------------------------------------------------------------------- C19
\* the stream s starts with the text pre
StartsWith(s, pre) == Len(s) >= Len(pre) /\ SubSeq(s, 1, Len(pre)) = pre

\* "Dependency install failed:"
InstallFailedMarker == SubSeq(InstallFailedPrefix, 1, Len(InstallFailedPrefix) - 1)

\* C19 as stated: the stderr of a returned record starts with
\* "Dependency install failed:" exactly when the install stage returned a
\* nonzero exit code.
C19_PrefixIffInstallFailed ==
  \A p \in Procs :
    outcome[p].kind = "return" =>
      (StartsWith(outcome[p].value.stderr, InstallFailedMarker) <=> InstallFailed(p))

\* C19 as amended: after a nonzero install the stderr of the returned
\* record starts with "Dependency install failed:" and a newline; a record
\* produced by running the snippet starts with "Dependency install
\* failed:" only when the interpreter's own stderr does.
C19_PrefixAmended ==
  \A p \in Procs :
    outcome[p].kind = "return" =>
      /\ InstallFailed(p) => StartsWith(outcome[p].value.stderr, InstallFailedPrefix)
      /\ (~InstallFailed(p) /\ StartsWith(outcome[p].value.stderr, InstallFailedMarker)) =>
           /\ child(p).cmd[1] = "node"
           /\ child(p).end # "timeout"
           /\ StartsWith(child(p).result.stderr, InstallFailedMarker)

\* an isolated call returned the record of an install that failed with a
\* message on stderr
C19_Witness ==
  \E p \in Procs :
    /\ req[p].use_temp_dir
    /\ outcome[p].kind = "return"
    /\ InstallFailed(p)
    /\ spawned[p][1].result.stderr = <<"a">>
    /\ outcome[p].value.stderr = InstallFailedPrefix \o <<"a">>

\* -------------------------------------------------------------------- C20
\* C20: after a timeout of the package manager no interpreter is spawned
\* and the record returned has returncode -2, stdout '' and stderr
\* "Dependency install failed:\nError: Execution timed out"; a returned
\* record with returncode -2 and the bare stderr "Error: Execution timed
\* out" comes from an interpreter that timed out.
C20_InstallTimeout ==
  \A p \in Procs :
    /\ (spawned[p] # <<>> /\ spawned[p][1].cmd[1] = "npm" /\ spawned[p][1].end = "timeout") =>
         /\ Len(spawned[p]) = 1
         /\ outcome[p].kind = "return" =>
              outcome[p].value = [returncode |-> 0 - 2, stdout |-> <<>>,
                                  stderr |-> InstallFailedPrefix \o TimedOutMessage]
    /\ (/\ outcome[p].kind = "return"
        /\ outcome[p].value.returncode = 0 - 2
        /\ outcome[p].value.stderr = TimedOutMessage) =>
         /\ child(p).cmd[1] = "node"
         /\ child(p).end = "timeout"

====
